---- MODULE Spec2Model ----
(***************************************************************************)
(* elfsize (src/main.go): print the size of an ELF file computed from its  *)
(* header, shoff + shentsize * shnum.                                      *)
(*                                                                         *)
(* A byte is an integer 0..255.  A file is the sequence of its first bytes *)
(* (position k+1 holds the byte at file offset k).  A decoded integer is a *)
(* little-endian vector of bytes (least significant first); an int64 is a  *)
(* vector of 8 bytes in two's complement, so 64-bit arithmetic keeps its   *)
(* width within the 32-bit integers of TLC.                                *)
(***************************************************************************)
EXTENDS Integers, Sequences, FiniteSets, TLC

VARIABLES
    argc,       \* len(os.Args)
    disk,       \* path -> what the path names (kind, bytes, environment)
    path,       \* the path of the running call (os.Args[1] in main)
    pc,         \* position in main / CalculateElfSize
    fdOpen,     \* descriptors held by os.File values that were never closed
    e,          \* the *elf.File returned by elf.NewFile (Class, ByteOrder)
    ident,      \* var ident [16]uint8
    srOff,      \* read offset of the io.SectionReader sr
    arm,        \* the case of the class switch that was taken
    shoff, shentsize, shnum,   \* var shoff, shentsize, shnum int64
    ret,        \* the value CalculateElfSize returned
    stdout, stderr, exitCode,
    trace,      \* history: the steps of the running call, in order
    calls,      \* history: calls of CalculateElfSize made by the process
    results     \* history: <<path, returned value>> of the finished calls

vars == <<argc, disk, path, pc, fdOpen, e, ident, srOff, arm, shoff,
          shentsize, shnum, ret, stdout, stderr, exitCode, trace, calls,
          results>>

-----------------------------------------------------------------------------
(* Byte vectors                                                            *)

Zeros(n) == [i \in 1..n |-> 0]

Rev(s) == [i \in 1..Len(s) |-> s[Len(s) + 1 - i]]

\* the n bytes at file offset off
Slice(s, off, n) == [i \in 1..n |-> s[off + i]]

Prefix(s, n) == [i \in 1..n |-> s[i]]

Zero64 == Zeros(8)

\* int64(x) of an unsigned x of 2, 4 or 8 bytes: zero extension; for a
\* uint64 the bits are kept and reinterpreted
ToInt64(v) == [i \in 1..8 |-> IF i <= Len(v) THEN v[i] ELSE 0]

IsNeg64(v) == v[8] >= 128

RECURSIVE AddCarry(_, _, _, _)
AddCarry(a, b, i, c) ==
    IF i > 8 THEN <<>>
    ELSE LET s == a[i] + b[i] + c
         IN  <<s % 256>> \o AddCarry(a, b, i + 1, s \div 256)

\* a + b on int64 (wraps modulo 2^64, as Go's + does)
Add64(a, b) == AddCarry(a, b, 1, 0)

RECURSIVE MulByteCarry(_, _, _, _)
MulByteCarry(a, k, i, c) ==
    IF i > 8 THEN <<>>
    ELSE LET p == a[i] * k + c
         IN  <<p % 256>> \o MulByteCarry(a, k, i + 1, p \div 256)

ShiftBytes(v, n) == [i \in 1..8 |-> IF i <= n THEN 0 ELSE v[i - n]]

RECURSIVE MulAcc(_, _, _)
MulAcc(a, b, i) ==
    IF i > 8 THEN Zero64
    ELSE IF b[i] = 0 THEN MulAcc(a, b, i + 1)
    ELSE Add64(ShiftBytes(MulByteCarry(a, b[i], 1, 0), i - 1),
               MulAcc(a, b, i + 1))

\* a * b on int64 (wraps modulo 2^64, as Go's * does)
Mul64(a, b) == MulAcc(a, b, 1)

Neg64(a) == Add64([i \in 1..8 |-> 255 - a[i]], <<1, 0, 0, 0, 0, 0, 0, 0>>)

\* v \div 10 and v % 10 of an unsigned 8-byte vector: long division from the
\* most significant byte; returns <<quotient vector, remainder>>
RECURSIVE DivMod10(_, _, _)
DivMod10(v, i, r) ==
    IF i = 0 THEN <<Zero64, r>>
    ELSE LET cur  == r * 256 + v[i]
             rest == DivMod10(v, i - 1, cur % 10)
         IN  <<[rest[1] EXCEPT ![i] = cur \div 10], rest[2]>>

DigitChar == <<"0", "1", "2", "3", "4", "5", "6", "7", "8", "9">>

RECURSIVE Digits(_)
Digits(v) ==
    IF v = Zero64 THEN <<>>
    ELSE LET qr == DivMod10(v, 8, 0)
         IN  Digits(qr[1]) \o <<DigitChar[qr[2] + 1]>>

\* fmt.Printf("%v\n", x) of an int64: the decimal digits, "-" first when the
\* value is negative
FormatInt64(v) ==
    IF v = Zero64 THEN <<"0">>
    ELSE IF IsNeg64(v) THEN <<"-">> \o Digits(Neg64(v))
    ELSE Digits(v)

-----------------------------------------------------------------------------
(* The ELF header as the code decodes it                                   *)

\* elf.Header32 and elf.Header64, the structs binary.Read fills: the fields
\* in declaration order with their sizes in bytes
Header32 ==
    << <<"Ident", 16>>, <<"Type", 2>>, <<"Machine", 2>>, <<"Version", 4>>,
       <<"Entry", 4>>, <<"Phoff", 4>>, <<"Shoff", 4>>, <<"Flags", 4>>,
       <<"Ehsize", 2>>, <<"Phentsize", 2>>, <<"Phnum", 2>>,
       <<"Shentsize", 2>>, <<"Shnum", 2>>, <<"Shstrndx", 2>> >>

Header64 ==
    << <<"Ident", 16>>, <<"Type", 2>>, <<"Machine", 2>>, <<"Version", 4>>,
       <<"Entry", 8>>, <<"Phoff", 8>>, <<"Shoff", 8>>, <<"Flags", 4>>,
       <<"Ehsize", 2>>, <<"Phentsize", 2>>, <<"Phnum", 2>>,
       <<"Shentsize", 2>>, <<"Shnum", 2>>, <<"Shstrndx", 2>> >>

RECURSIVE SizeUpTo(_, _)
SizeUpTo(layout, n) ==
    IF n = 0 THEN 0 ELSE SizeUpTo(layout, n - 1) + layout[n][2]

\* binary.Size(hdr)
StructSize(layout) == SizeUpTo(layout, Len(layout))

FieldIndex(layout, name) ==
    CHOOSE i \in 1..Len(layout) : layout[i][1] = name

\* binary.ByteOrder.Uint16/32/64: the raw bytes, in file order, as a value
Uint(order, raw) == IF order = "BE" THEN Rev(raw) ELSE raw

\* the field `name` of the struct binary.Read decoded from buf: the fields
\* are laid out one after the other, each decoded with the byte order
ReadField(buf, order, layout, name) ==
    LET i == FieldIndex(layout, name)
    IN  Uint(order, Slice(buf, SizeUpTo(layout, i - 1), layout[i][2]))

\* Class.String() for the class byte
ClassString(c) ==
    CASE c = 0 -> "ELFCLASSNONE"
      [] c = 1 -> "ELFCLASS32"
      [] c = 2 -> "ELFCLASS64"
      [] OTHER -> "unknown"

\* the mistake: both arms decode the 32-bit struct
ArmLayout_Mixed(a) == Header32

\* the struct the arm of the class switch allocates
ArmLayout(a) == IF a = "ELFCLASS64" THEN Header64 ELSE Header32

Magic == <<127, 69, 76, 70>>    \* "\x7fELF"

\* the mistake: the read reports no error on a short file and leaves the
\* missing bytes zero
ReadAt_NoEOF(b, n) ==
    [data |-> [i \in 1..n |-> IF i <= Len(b) THEN b[i] ELSE 0], err |-> ""]

\* f.ReadAt(buf[0:n], 0): the first n bytes, io.EOF when the file is shorter
ReadAt(b, n) ==
    [data |-> [i \in 1..n |-> IF i <= Len(b) THEN b[i] ELSE 0],
     err  |-> IF Len(b) < n THEN "EOF" ELSE ""]

\* the mistake: only the first byte of the magic is compared
MagicOk_FirstByte(id) == id[1] = 127

\* the identifier starts with '\x7f', 'E', 'L', 'F'
MagicOk(id) == ~(id[1] # 127 \/ id[2] # 69 \/ id[3] # 76 \/ id[4] # 70)

\* elf.NewFile(f) of the standard library, by what it does with the file:
\* it reads the 16 identifier bytes, checks the magic, the class, the data
\* encoding and the version, reads the header of the class, checks the
\* header's version and the section count against the section offset and
\* the name table index, and then parses the program headers, the section
\* headers and the section name table.  Whether that last part succeeds
\* depends on the rest of the file and on the library's version (later
\* versions reject more): file.tablesOk says so, and it matters only when
\* the header names a table.  The result names the error ("" for none), the
\* Class and ByteOrder of the *elf.File, and what the call did, in order.
NewFile(file) ==
    LET b       == file.bytes
        rd      == ReadAt(b, 16)
        id      == rd.data
        cls     == id[5]
        dat     == id[6]
        order   == IF dat = 2 THEN "BE" ELSE "LE"
        layout  == IF cls = 2 THEN Header64 ELSE Header32
        Field(name) == ReadField(b, order, layout, name)
        none    == [err |-> "", Class |-> 0, ByteOrder |-> "none", events |-> <<>>]
        ev1     == <<"lib.readIdent">>
        ev2     == ev1 \o <<"lib.checkMagic">>
        ev3     == ev2 \o <<"lib.decodeClass">>
        ev4     == ev3 \o <<"lib.decodeByteOrder">>
        ev5     == ev4 \o <<"lib.readHeader">>
        ev6     == ev5 \o <<"lib.parseTables">>
    IN  IF file.fault = "parse"
            THEN [none EXCEPT !.err = "input/output error", !.events = ev1]
        ELSE IF rd.err # ""
            THEN [none EXCEPT !.err = rd.err, !.events = ev1]
        ELSE IF ~MagicOk(id)
            THEN [none EXCEPT !.err = "bad magic number", !.events = ev2]
        ELSE IF cls \notin {1, 2}
            THEN [none EXCEPT !.err = "unknown ELF class", !.events = ev3]
        ELSE IF dat \notin {1, 2}
            THEN [none EXCEPT !.err = "unknown ELF data encoding", !.events = ev4]
        ELSE IF id[7] # 1
            THEN [none EXCEPT !.err = "unknown ELF version", !.events = ev4]
        ELSE IF Len(b) < StructSize(layout)
            THEN [none EXCEPT !.err = "unexpected EOF", !.events = ev5]
        ELSE IF Field("Version") # <<1, 0, 0, 0>>
            THEN [none EXCEPT !.err = "mismatched ELF version", !.events = ev5]
        ELSE IF /\ Field("Shoff") = Zeros(Len(Field("Shoff")))
                /\ Field("Shnum") # <<0, 0>>
            THEN [none EXCEPT !.err = "invalid ELF shnum for shoff=0", !.events = ev5]
        ELSE IF /\ Field("Shnum") # <<0, 0>>
                /\ Field("Shstrndx")[1] + 256 * Field("Shstrndx")[2]
                     >= Field("Shnum")[1] + 256 * Field("Shnum")[2]
            THEN [none EXCEPT !.err = "invalid ELF shstrndx", !.events = ev5]
        ELSE IF /\ ~file.tablesOk
                /\ \/ Field("Phnum") # <<0, 0>>
                   \/ Field("Shnum") # <<0, 0>>
                   \/ Field("Shoff") # Zeros(Len(Field("Shoff")))
            THEN [none EXCEPT !.err = "invalid ELF tables", !.events = ev6]
        ELSE [err |-> "", Class |-> cls, ByteOrder |-> order, events |-> ev6]

\* os.Stat(filename) in fileExists: "panic" stands for the nil pointer
\* dereference of info.IsDir() when Stat failed with another error than
\* "does not exist"
FileExists(kind) ==
    CASE kind = "notexist" -> "false"
      [] kind = "staterr"  -> "panic"
      [] kind = "dir"      -> "false"
      [] OTHER             -> "true"

-----------------------------------------------------------------------------
(* The inputs                                                              *)

MaxCalls == 4   \* calls of CalculateElfSize one process makes (SpecLib)
MaxFds   == 2   \* descriptors the process may hold open (RLIMIT_NOFILE)

LE1 == <<1, 0, 0, 0>>
BE1 == <<0, 0, 0, 1>>

\* The first 64 bytes of a file: the identifier (magic, class, data
\* encoding, version), the version field at offset 20, and the bytes at the
\* offsets either header layout gives to shoff, shentsize and shnum
\* (ELF32: 32..35, 46..47, 48..49; ELF64: 40..47, 58..59, 60..61).  The
\* other bytes are zero.
Image(magic, cls, dat, ver, hver, b32, b40, b46, b48, b58, b60) ==
    magic \o <<cls, dat, ver>> \o Zeros(9)      \* 0..15
    \o Zeros(4) \o hver \o Zeros(8)             \* 16..31
    \o b32 \o Zeros(4)                          \* 32..39
    \o b40 \o b46 \o b48 \o Zeros(8)            \* 40..57
    \o b58 \o b60 \o Zeros(2)                   \* 58..63

File(kind, bytes, tablesOk, fault) ==
    [kind |-> kind, bytes |-> bytes, tablesOk |-> tablesOk, fault |-> fault]

HVer(dat) == IF dat = 2 THEN BE1 ELSE LE1

B32 == { <<0, 0, 0, 0>>, <<0, 0, 255, 255>>, <<255, 255, 255, 255>> }
B40 == { <<0, 16, 0, 0, 0, 0>>, <<0, 0, 0, 0, 0, 0>>, <<255, 0, 0, 0, 0, 0>>,
         <<0, 0, 0, 0, 1, 0>> }
B46 == { <<40, 0>>, <<0, 0>>, <<0, 128>>, <<255, 255>> }
B48 == { <<2, 0>>, <<0, 0>>, <<255, 255>> }
B58 == { <<64, 0>>, <<0, 0>>, <<255, 255>> }
B60 == { <<5, 0>>, <<0, 0>>, <<255, 255>> }

\* well-formed identifiers over every combination of the header bytes
HeaderFiles ==
    { File("regular",
           Image(Magic, cls, dat, 1, HVer(dat), b32, b40, b46, b48, b58, b60),
           ok, "none") :
        cls \in {1, 2}, dat \in {1, 2}, ok \in BOOLEAN,
        b32 \in B32, b40 \in B40, b46 \in B46, b48 \in B48, b58 \in B58,
        b60 \in B60 }

Magics ==
    { Magic, <<0, 69, 76, 70>>, <<127, 0, 76, 70>>, <<127, 69, 0, 70>>,
      <<127, 69, 76, 0>>, <<35, 33, 47, 98>> }

\* every identifier: magic, class, data encoding, version, header version
IdentFiles ==
    { File("regular",
           Image(m, cls, dat, ver, hver, <<52, 0, 0, 0>>, <<64, 0, 0, 0, 0, 0>>,
                 <<40, 0>>, <<2, 0>>, <<64, 0>>, <<3, 0>>),
           TRUE, "none") :
        m \in Magics, cls \in 0..3, dat \in 0..3, ver \in {0, 1},
        hver \in {LE1, BE1} }

SampleImages ==
    { Image(m, cls, 1, 1, LE1, <<52, 0, 0, 0>>, <<64, 0, 0, 0, 0, 0>>,
            <<40, 0>>, <<2, 0>>, <<64, 0>>, <<3, 0>>) :
        m \in {Magic, <<35, 33, 47, 98>>}, cls \in {1, 2} }

\* files of every length up to the size of the larger header
ShortFiles ==
    { File("regular", Prefix(img, n), TRUE, "none") :
        img \in SampleImages, n \in 0..64 }

\* files on which one of the I/O calls fails
FaultyFiles ==
    { File("regular", img, TRUE, flt) :
        img \in SampleImages, flt \in {"open", "stat", "parse", "ident", "hdr"} }

\* paths that do not name a regular file
OtherFiles ==
    { File(kind, img, TRUE, "none") :
        img \in SampleImages, kind \in {"notexist", "staterr", "dir", "other"} }

Files == HeaderFiles \cup IdentFiles \cup ShortFiles \cup FaultyFiles \cup OtherFiles

LibFiles ==
    { File("regular", img, TRUE, "none") : img \in SampleImages }
    \cup { File("regular", Prefix(img, 10), TRUE, "none") : img \in SampleImages }

LibPaths == {"a", "b"}

NoFile == [Class |-> 0, ByteOrder |-> "none"]

-----------------------------------------------------------------------------
(* main                                                                    *)

Locals == <<e, ident, srOff, arm, shoff, shentsize, shnum>>
Outputs == <<stdout, stderr, exitCode>>
History == <<calls, results>>

LocalsInit ==
    /\ e = NoFile
    /\ ident = Zeros(16)
    /\ srOff = 0
    /\ arm = "none"
    /\ shoff = Zero64
    /\ shentsize = Zero64
    /\ shnum = Zero64

Init ==
    /\ argc \in {1, 2}
    /\ path = "a"
    /\ disk \in [{"a"} -> Files]
    /\ argc = 1 => disk["a"] = File("regular", <<>>, TRUE, "none")
    /\ pc = "main"
    /\ fdOpen = 0
    /\ LocalsInit
    /\ ret = Zero64
    /\ stdout = <<>>
    /\ stderr = <<>>
    /\ exitCode = -1
    /\ trace = <<>>
    /\ calls = 0
    /\ results = <<>>

Msg(ctx, err) == [ctx |-> ctx, err |-> err]

\* main, lines 16-21: the usage message when no path is given
Main_Args ==
    /\ pc = "main"
    /\ IF argc < 2
         THEN /\ stderr' = stderr \o <<Msg("main", "USAGE")>>
              /\ exitCode' = 1
              /\ pc' = "exited"
         ELSE /\ pc' = "fileExists"
              /\ UNCHANGED <<stderr, exitCode>>
    /\ UNCHANGED <<argc, disk, path, fdOpen, Locals, ret, stdout, trace, History>>

\* main, lines 23-26, with fileExists, lines 32-38
Main_FileExists ==
    /\ pc = "fileExists"
    /\ LET r == FileExists(disk[path].kind)
       IN  CASE r = "panic" ->
                   /\ stderr' = stderr \o <<Msg("runtime", "panic: nil pointer dereference")>>
                   /\ exitCode' = 2
                   /\ pc' = "exited"
                   /\ UNCHANGED calls
             [] r = "false" ->
                   /\ stderr' = stderr \o <<Msg("main", "does not exist, exiting")>>
                   /\ exitCode' = 1
                   /\ pc' = "exited"
                   /\ UNCHANGED calls
             [] OTHER ->
                   /\ pc' = "open"
                   /\ calls' = calls + 1
                   /\ UNCHANGED <<stderr, exitCode>>
    /\ UNCHANGED <<argc, disk, path, fdOpen, Locals, ret, stdout, trace, results>>

\* main, line 28: fmt.Printf("%v\n", CalculateElfSize(os.Args[1]))
Main_Print ==
    /\ pc = "ret"
    /\ stdout' = Append(stdout, FormatInt64(ret))
    /\ exitCode' = 0
    /\ pc' = "exited"
    /\ UNCHANGED <<argc, disk, path, fdOpen, Locals, ret, stderr, trace, History>>

-----------------------------------------------------------------------------
(* CalculateElfSize                                                        *)

\* the mistake: a failure path that returns -1
Fail_MinusOne(ctx, err) ==
    /\ stderr' = Append(stderr, Msg(ctx, err))
    /\ ret' = [i \in 1..8 |-> 255]
    /\ pc' = "ret"

\* a failure path: the diagnostic on the error stream, then `return 0`
Fail(ctx, err) ==
    /\ stderr' = Append(stderr, Msg(ctx, err))
    /\ ret' = Zero64
    /\ pc' = "ret"

\* lines 116-121: os.Open(file); the os.File is never closed
Open ==
    /\ pc = "open"
    /\ trace' = Append(trace, "open")
    /\ IF \/ disk[path].kind \in {"notexist", "staterr"}
          \/ disk[path].fault = "open"
          \/ fdOpen >= MaxFds
         THEN /\ Fail("ioReader", "open failed")
              /\ UNCHANGED fdOpen
         ELSE /\ fdOpen' = fdOpen + 1
              /\ pc' = "stat"
              /\ UNCHANGED <<stderr, ret>>
    /\ UNCHANGED <<argc, disk, path, Locals, stdout, exitCode, History>>

\* lines 123-127: f.Stat()
Stat ==
    /\ pc = "stat"
    /\ trace' = Append(trace, "stat")
    /\ IF disk[path].fault = "stat"
         THEN Fail("ioReader", "stat failed")
         ELSE /\ pc' = "newfile"
              /\ UNCHANGED <<stderr, ret>>
    /\ UNCHANGED <<argc, disk, path, fdOpen, Locals, stdout, exitCode, History>>

\* the mistake: no return after the diagnostic
ParseElf_NoReturn ==
    /\ pc = "newfile"
    /\ LET r == NewFile(disk[path])
       IN  /\ trace' = trace \o <<"newfile">> \o r.events
           /\ e' = [Class |-> r.Class, ByteOrder |-> r.ByteOrder]
           /\ pc' = "ident"
           /\ IF r.err # ""
                THEN stderr' = Append(stderr, Msg("elfsize elf.NewFile", r.err))
                ELSE UNCHANGED stderr
    /\ UNCHANGED <<argc, disk, path, fdOpen, ident, srOff, arm, shoff, shentsize,
                   shnum, ret, stdout, exitCode, History>>

\* lines 129-133: e, err := elf.NewFile(f)
ParseElf ==
    /\ pc = "newfile"
    /\ LET r == NewFile(disk[path])
       IN  /\ trace' = trace \o <<"newfile">> \o r.events
           /\ IF r.err # ""
                THEN /\ Fail("elfsize elf.NewFile", r.err)
                     /\ UNCHANGED e
                ELSE /\ e' = [Class |-> r.Class, ByteOrder |-> r.ByteOrder]
                     /\ pc' = "ident"
                     /\ UNCHANGED <<stderr, ret>>
    /\ UNCHANGED <<argc, disk, path, fdOpen, ident, srOff, arm, shoff, shentsize,
                   shnum, stdout, exitCode, History>>

\* lines 136-141: f.ReadAt(ident[0:], 0)
ReadIdent ==
    /\ pc = "ident"
    /\ trace' = Append(trace, "readIdent")
    /\ LET rd == ReadAt(disk[path].bytes, 16)
       IN  IF disk[path].fault = "ident"
             THEN /\ Fail("elfsize read identifier", "input/output error")
                  /\ UNCHANGED ident
           ELSE IF rd.err # ""
             THEN /\ Fail("elfsize read identifier", rd.err)
                  /\ ident' = rd.data
           ELSE /\ ident' = rd.data
                /\ pc' = "magic"
                /\ UNCHANGED <<stderr, ret>>
    /\ UNCHANGED <<argc, disk, path, fdOpen, e, srOff, arm, shoff, shentsize,
                   shnum, stdout, exitCode, History>>

\* lines 144-150: the magic number
CheckMagic ==
    /\ pc = "magic"
    /\ trace' = Append(trace, "checkMagic")
    /\ IF ~MagicOk(ident)
         THEN Fail("elfsize", "Bad magic number")
         ELSE /\ pc' = "switch"
              /\ UNCHANGED <<stderr, ret>>
    /\ UNCHANGED <<argc, disk, path, fdOpen, Locals, stdout, exitCode, History>>

\* lines 153-156, 172, 188-191: sr := io.NewSectionReader(f, 0, 1<<63-1) and
\* the switch on e.Class.String()
SwitchClass ==
    /\ pc = "switch"
    /\ trace' = Append(trace, "switchClass")
    /\ srOff' = 0
    /\ LET c == ClassString(e.Class)
       IN  IF c \in {"ELFCLASS64", "ELFCLASS32"}
             THEN /\ arm' = c
                  /\ pc' = "seek"
                  /\ UNCHANGED <<stderr, ret>>
             ELSE /\ Fail("elfsize", "unsupported elf architecture")
                  /\ UNCHANGED arm
    /\ UNCHANGED <<argc, disk, path, fdOpen, e, ident, shoff, shentsize, shnum,
                   stdout, exitCode, History>>

\* lines 158-162 and 174-178: sr.Seek(0, 0), which fails on a negative offset
Seek ==
    /\ pc = "seek"
    /\ trace' = Append(trace, "seek")
    /\ LET off == 0 + 0
       IN  IF off < 0
             THEN /\ Fail("elfsize", "Seek: invalid offset")
                  /\ UNCHANGED srOff
             ELSE /\ srOff' = off
                  /\ pc' = "read"
                  /\ UNCHANGED <<stderr, ret>>
    /\ UNCHANGED <<argc, disk, path, fdOpen, e, ident, arm, shoff, shentsize,
                   shnum, stdout, exitCode, History>>

\* lines 163-171 and 179-187: binary.Read(sr, e.ByteOrder, hdr) and the
\* conversions of hdr.Shoff, hdr.Shnum and hdr.Shentsize to int64
ReadHeader ==
    /\ pc = "read"
    /\ trace' = Append(trace, "readHeader")
    /\ LET b      == disk[path].bytes
           layout == ArmLayout(arm)
           n      == StructSize(layout)
       IN  IF disk[path].fault = "hdr"
             THEN /\ Fail("elfsize", "input/output error")
                  /\ UNCHANGED <<srOff, shoff, shentsize, shnum>>
           ELSE IF Len(b) - srOff < n
             THEN /\ Fail("elfsize", "unexpected EOF")
                  /\ srOff' = Len(b)
                  /\ UNCHANGED <<shoff, shentsize, shnum>>
           ELSE LET buf == Slice(b, srOff, n)
                IN  /\ srOff' = srOff + n
                    /\ shoff' = ToInt64(ReadField(buf, e.ByteOrder, layout, "Shoff"))
                    /\ shnum' = ToInt64(ReadField(buf, e.ByteOrder, layout, "Shnum"))
                    /\ shentsize' = ToInt64(ReadField(buf, e.ByteOrder, layout, "Shentsize"))
                    /\ pc' = "calc"
                    /\ UNCHANGED <<stderr, ret>>
    /\ UNCHANGED <<argc, disk, path, fdOpen, e, ident, arm, stdout, exitCode,
                   History>>

\* the mistake: the arithmetic done in 32 bits
ElfSize_Wrap32(off, entsize, num) ==
    [i \in 1..8 |-> IF i <= 4 THEN Add64(off, Mul64(entsize, num))[i] ELSE 0]

\* the mistake: the sum of the three fields
ElfSize_Sum(off, entsize, num) == Add64(off, Add64(entsize, num))

\* line 194: elfsize := shoff + (shentsize * shnum)
ElfSize(off, entsize, num) == Add64(off, Mul64(entsize, num))

\* lines 194-196
Compute ==
    /\ pc = "calc"
    /\ trace' = Append(trace, "compute")
    /\ ret' = ElfSize(shoff, shentsize, shnum)
    /\ pc' = "ret"
    /\ UNCHANGED <<argc, disk, path, fdOpen, Locals, Outputs, History>>

Calculate ==
    \/ Open
    \/ Stat
    \/ ParseElf
    \/ ReadIdent
    \/ CheckMagic
    \/ SwitchClass
    \/ Seek
    \/ ReadHeader
    \/ Compute

Next ==
    \/ Main_Args
    \/ Main_FileExists
    \/ Calculate
    \/ Main_Print

Spec == Init /\ [][Next]_vars

-----------------------------------------------------------------------------
(* A process that calls CalculateElfSize several times                     *)

InitLib ==
    /\ argc = 2
    /\ path = "a"
    /\ disk \in [LibPaths -> LibFiles]
    /\ pc = "idle"
    /\ fdOpen = 0
    /\ LocalsInit
    /\ ret = Zero64
    /\ stdout = <<>>
    /\ stderr = <<>>
    /\ exitCode = -1
    /\ trace = <<>>
    /\ calls = 0
    /\ results = <<>>

\* CalculateElfSize(p): a fresh activation, its locals zeroed
Lib_Call ==
    /\ pc = "idle"
    /\ calls < MaxCalls
    /\ \E p \in LibPaths : path' = p
    /\ calls' = calls + 1
    /\ pc' = "open"
    /\ e' = NoFile
    /\ ident' = Zeros(16)
    /\ srOff' = 0
    /\ arm' = "none"
    /\ shoff' = Zero64
    /\ shentsize' = Zero64
    /\ shnum' = Zero64
    /\ trace' = <<>>
    /\ stderr' = <<>>
    /\ UNCHANGED <<argc, disk, fdOpen, ret, stdout, exitCode, results>>

\* the call returns to its caller
Lib_Return ==
    /\ pc = "ret"
    /\ results' = Append(results, <<path, ret>>)
    /\ pc' = "idle"
    /\ UNCHANGED <<argc, disk, path, fdOpen, Locals, ret, Outputs, trace, calls>>

\* the garbage collector runs the finalizers of the unreachable os.File
\* values, which close their descriptors; nothing says when it does
Lib_GC ==
    /\ pc = "idle"
    /\ fdOpen > 0
    /\ fdOpen' = 0
    /\ UNCHANGED <<argc, disk, path, pc, Locals, ret, Outputs, trace, History>>

NextLib ==
    \/ Lib_Call
    \/ Calculate
    \/ Lib_Return
    \/ Lib_GC

SpecLib == InitLib /\ [][NextLib]_vars

-----------------------------------------------------------------------------
(* What the properties are stated with                                     *)

\* the file of the running call
F == disk[path]

\* the file can be opened and read: a regular file (or a device with the
\* same bytes) and no failing I/O call
Readable(f) == f.kind \in {"regular", "other"} /\ f.fault = "none"

\* The ELF specification's header: the value of the n bytes at offset off in
\* the byte order the data encoding byte names, least significant byte first
ElfValue(b, off, n) ==
    [i \in 1..n |-> IF b[6] = 2 THEN b[off + n + 1 - i] ELSE b[off + i]]

\* e_shoff, e_shentsize and e_shnum at the offsets of the file's class
ElfShoff(b)     == IF b[5] = 1 THEN ElfValue(b, 32, 4) ELSE ElfValue(b, 40, 8)
ElfShentsize(b) == IF b[5] = 1 THEN ElfValue(b, 46, 2) ELSE ElfValue(b, 58, 2)
ElfShnum(b)     == IF b[5] = 1 THEN ElfValue(b, 48, 2) ELSE ElfValue(b, 60, 2)

\* a value as digits in base 65536, least significant first, four of them
Limbs(v) ==
    [j \in 1..4 |-> IF 2 * j <= Len(v) THEN v[2 * j - 1] + 256 * v[2 * j] ELSE 0]

\* off + entsize * num over the naturals, as five digits in base 65536 (the
\* fifth is the carry out of 64 bits)
ExactSize(off, entsize, num) ==
    LET o  == Limbs(off)
        a  == entsize[1] + 256 * entsize[2]
        b  == num[1] + 256 * num[2]
        p  == (a % 256) * b
        q  == (a \div 256) * b
        t  == p + (q % 256) * 256
        lo == t % 65536
        hi == (q \div 256) + (t \div 65536)
        s1 == o[1] + lo
        s2 == o[2] + hi + (s1 \div 65536)
        s3 == o[3] + (s2 \div 65536)
        s4 == o[4] + (s3 \div 65536)
    IN  <<s1 % 65536, s2 % 65536, s3 % 65536, s4 % 65536, s4 \div 65536>>

FileSize(b) == ExactSize(ElfShoff(b), ElfShentsize(b), ElfShnum(b))

\* the size fits an int64: it is below 2^63
Fits(x) == x[5] = 0 /\ x[4] < 32768

\* the returned int64 is the natural number x
RetIs(x) == Fits(x) /\ Limbs(ret) = <<x[1], x[2], x[3], x[4]>>

\* the returned int64 is x modulo 2^64, in two's complement
RetIsWrapped(x) == Limbs(ret) = <<x[1], x[2], x[3], x[4]>>

\* the header is one the ELF specification accepts: 52 or 64 bytes, the
\* magic, class 1 or 2, data encoding 1 or 2
HeaderValid(b) ==
    /\ Len(b) >= 16
    /\ <<b[1], b[2], b[3], b[4]>> = <<127, 69, 76, 70>>
    /\ b[5] \in {1, 2}
    /\ b[6] \in {1, 2}
    /\ Len(b) >= (IF b[5] = 1 THEN 52 ELSE 64)

BadMagic(b) ==
    \/ Len(b) < 4
    \/ <<b[1], b[2], b[3], b[4]>> # <<127, 69, 76, 70>>

\* the error of the specification's taxonomy a diagnostic stands for
ErrorKind(m) ==
    CASE m.err \in {"bad magic number", "Bad magic number"} -> "NotElf"
      [] m.err \in {"EOF", "unexpected EOF"} -> "Truncated"
      [] m.err \in {"unknown ELF class", "unsupported elf architecture"} -> "UnsupportedClass"
      [] m.err = "unknown ELF data encoding" -> "UnsupportedByteOrder"
      [] m.err \in {"open failed", "stat failed", "input/output error"} -> "Io"
      [] OTHER -> "Other"

\* CalculateElfSize has returned to main
Returned == pc \in {"ret", "exited"} /\ calls > 0

Count(evs) == Cardinality({i \in 1..Len(trace) : trace[i] \in evs})

Occurs(ev) == \E i \in 1..Len(trace) : trace[i] = ev

IsPrefix(s, t) == Len(s) <= Len(t) /\ \A i \in 1..Len(s) : s[i] = t[i]

SelectTrace(evs) ==
    LET Test(x) == x \in evs IN SelectSeq(trace, Test)

OwnSteps ==
    <<"open", "stat", "newfile", "readIdent", "checkMagic", "switchClass",
      "seek", "readHeader", "compute">>

LibSteps ==
    <<"lib.readIdent", "lib.checkMagic", "lib.decodeClass",
      "lib.decodeByteOrder", "lib.readHeader", "lib.parseTables">>

Range(s) == {s[i] : i \in 1..Len(s)}

-----------------------------------------------------------------------------
(* The properties                                                          *)

\* C1, as stated: whenever the header is valid (magic, class 1 or 2, data
\* encoding 1 or 2, all the header's bytes) the call returns exactly
\* shoff + shentsize * shnum of the class's layout.
C1_HeaderAcceptedGivesSize ==
    (Returned /\ Readable(F) /\ HeaderValid(F.bytes))
        => (stderr = <<>> /\ RetIs(FileSize(F.bytes)))

\* C1, amended: whenever elf.NewFile accepts the file (and it can be read),
\* the call returns shoff + shentsize * shnum in int64 arithmetic (modulo
\* 2^64), the three fields taken from the layout of the file's class and
\* decoded with the file's byte order, and prints no diagnostic.
C1_AcceptedGivesWrappedSize ==
    (Returned /\ Readable(F) /\ NewFile(F).err = "")
        => /\ stderr = <<>>
           /\ RetIsWrapped(FileSize(F.bytes))
           /\ Fits(FileSize(F.bytes)) => RetIs(FileSize(F.bytes))

\* the 64-bit header with offset 0x1000, entry size 0x40 and count 5 has
\* returned 0x1140
C1_Witness ==
    /\ pc = "ret"
    /\ stderr = <<>>
    /\ F.bytes[5] = 2
    /\ ElfShoff(F.bytes) = <<0, 16, 0, 0, 0, 0, 0, 0>>
    /\ ElfShentsize(F.bytes) = <<64, 0>>
    /\ ElfShnum(F.bytes) = <<5, 0>>
    /\ ret = <<64, 17, 0, 0, 0, 0, 0, 0>>

\* C2, as stated: a file whose first four bytes are not the magic fails
\* with NotElf and returns no size, whatever its length.
C2_BadMagicAnyLength ==
    (Returned /\ Readable(F) /\ BadMagic(F.bytes))
        => /\ Len(stderr) = 1
           /\ ErrorKind(stderr[1]) = "NotElf"
           /\ ret = Zero64
           /\ ~Occurs("compute")

\* C2, amended: a file of at least 16 bytes whose first four bytes are not
\* the magic fails with the bad magic diagnostic, returns 0 and never
\* computes a size from the header, whatever the rest of it holds.
C2_BadMagicFails ==
    (Returned /\ Readable(F) /\ Len(F.bytes) >= 16 /\ BadMagic(F.bytes))
        => /\ Len(stderr) = 1
           /\ ErrorKind(stderr[1]) = "NotElf"
           /\ ret = Zero64
           /\ ~Occurs("compute")
           /\ ~Occurs("switchClass")

C2_Witness ==
    /\ pc = "ret"
    /\ Len(F.bytes) = 64
    /\ BadMagic(F.bytes)
    /\ F.bytes[5] = 2
    /\ F.bytes[6] = 1
    /\ ErrorKind(stderr[1]) = "NotElf"

\* C3: a size that does not fit the signed 64-bit result fails with the
\* Overflow error, and no negative or wrapped size is ever returned.
C3_OverflowIsAnError ==
    Returned
        => /\ ~IsNeg64(ret)
           /\ (Readable(F) /\ NewFile(F).err = "" /\ ~Fits(FileSize(F.bytes)))
                 => (stderr # <<>> /\ ret = Zero64)

C5_ZeroCountNeverRejected ==
    (Returned /\ Readable(F) /\ HeaderValid(F.bytes)
              /\ ElfShnum(F.bytes) = <<0, 0>>)
        => (stderr = <<>> /\ RetIs(Limbs(ElfShoff(F.bytes)) \o <<0>>))

\* C5, amended: when a file with a section count of 0 is accepted by
\* elf.NewFile, the call returns int64(shoff), the offset's 64 bits, for
\* every offset and every entry size, and prints no diagnostic.
C5_ZeroCount ==
    (Returned /\ Readable(F) /\ NewFile(F).err = ""
              /\ ElfShnum(F.bytes) = <<0, 0>>)
        => /\ stderr = <<>>
           /\ ret = [i \in 1..8 |-> IF i <= Len(ElfShoff(F.bytes))
                                      THEN ElfShoff(F.bytes)[i] ELSE 0]

\* a count of 0 with a non-zero offset and a non-zero entry size
C5_Witness ==
    /\ pc = "ret"
    /\ stderr = <<>>
    /\ ElfShnum(F.bytes) = <<0, 0>>
    /\ ElfShentsize(F.bytes) = <<255, 255>>
    /\ ElfShoff(F.bytes) # Zeros(Len(ElfShoff(F.bytes)))
    /\ ret # Zero64

\* C6: a readable file of fewer than 16 bytes fails with the truncation
\* diagnostic (EOF) and returns 0; the run does not panic and gets neither
\* to the class switch nor to the arithmetic.
C6_ShortFileTruncated ==
    (Readable(F) /\ argc = 2 /\ Len(F.bytes) < 16)
        => /\ exitCode # 2
           /\ Range(trace) \cap {"readIdent", "checkMagic", "switchClass", "seek",
                                 "readHeader", "compute", "lib.decodeClass",
                                 "lib.readHeader"} = {}
           /\ Returned => /\ Len(stderr) = 1
                          /\ ErrorKind(stderr[1]) = "Truncated"
                          /\ ret = Zero64

\* the empty file and a file of 15 bytes with the magic
C6_Witness ==
    /\ pc = "exited"
    /\ calls = 1
    /\ Len(F.bytes) = 15
    /\ ~BadMagic(F.bytes)
    /\ ErrorKind(stderr[1]) = "Truncated"
    /\ stdout = << <<"0">> >>

\* C7: a path that does not name an existing regular file ends the program
\* with the "does not exist" message and status 1, without a crash, a call
\* of CalculateElfSize or any output.
C7_NotRegularExits1 ==
    (pc = "exited" /\ argc = 2 /\ F.kind # "regular")
        => /\ stderr = <<Msg("main", "does not exist, exiting")>>
           /\ exitCode = 1
           /\ stdout = <<>>
           /\ calls = 0

\* C8: every failure of CalculateElfSize returns 0 and leaves the process
\* running; main then prints "0" and ends with status 0.
C8_FailureReturnsZero ==
    /\ (calls > 0 /\ pc # "exited") => exitCode = -1
    /\ (Returned /\ (trace = <<>> \/ trace[Len(trace)] # "compute"))
          => (stderr # <<>> /\ ret = Zero64)
    /\ (Returned /\ stderr # <<>>) => ret = Zero64
    /\ (pc = "exited" /\ calls > 0 /\ stderr # <<>>)
          => (stdout = << <<"0">> >> /\ exitCode = 0)

\* a failed call, after main printed
C8_Witness ==
    /\ pc = "exited"
    /\ calls > 0
    /\ stderr # <<>>
    /\ ErrorKind(stderr[1]) = "UnsupportedClass"
    /\ stdout = << <<"0">> >>
    /\ exitCode = 0

\* C9: the calls a process makes on one (unchanged) file all return the same
\* value.
C9_SameResult ==
    \A i, j \in 1..Len(results) :
        results[i][1] = results[j][1] => results[i][2] = results[j][2]

\* C10, amended: the function's own steps run in the order open, stat,
\* elf.NewFile, read identifier, validate magic, switch on class, seek, read
\* header, compute, each at most once and none skipped; elf.NewFile itself
\* reads the identifier, validates the magic and decodes class and byte
\* order in that order; class and byte order are never decoded or switched
\* on before an identifier read and a magic check; a failure ends the run.
C10_LinearOrder ==
    /\ IsPrefix(SelectTrace(Range(OwnSteps)), OwnSteps)
    /\ IsPrefix(SelectTrace(Range(LibSteps)), LibSteps)
    /\ \A i \in 1..Len(trace) :
          /\ trace[i] \in {"lib.decodeClass", "lib.decodeByteOrder", "switchClass"}
                => /\ \E j \in 1..(i - 1) : trace[j] \in {"lib.readIdent", "readIdent"}
                   /\ \E j \in 1..(i - 1) : trace[j] \in {"lib.checkMagic", "checkMagic"}
          /\ trace[i] \in Range(LibSteps)
                => \E j \in 1..(i - 1) : trace[j] = "newfile"
    /\ (calls > 0 /\ stderr # <<>>) => pc \in {"ret", "exited"}
    /\ pc \in {"ret", "exited"} => (stderr # <<>> \/ calls = 0 \/ Occurs("compute"))

\* C10, as stated: moreover every step (reading the identifier, validating
\* the magic, decoding the header) happens at most once in a run.
C10_EachStepOnce ==
    /\ C10_LinearOrder
    /\ Count({"lib.readIdent", "readIdent"}) <= 1
    /\ Count({"lib.checkMagic", "checkMagic"}) <= 1
    /\ Count({"lib.readHeader", "readHeader"}) <= 1

\* a complete run: the identifier read twice, the size computed
C10_Witness ==
    /\ pc = "ret"
    /\ Occurs("compute")
    /\ Count({"lib.readIdent", "readIdent"}) = 2
    /\ Len(trace) = 15

====
